---- MODULE Spec2Model ----
(***************************************************************************)
(* Model of the client Allocations.Exec streaming endpoint                 *)
(* (Allocations.exec, Allocations.execImpl, execStream.Send/Recv).         *)
(*                                                                         *)
(* One exec session over one connection.  Go pointers are option sets:     *)
(* {} is nil, {v} points at v.  Go errors are sequences of strings: <<>>   *)
(* is the nil error.  The collaborators the endpoint calls (allocation     *)
(* runner lookup, token resolver, driver capabilities, allocation state,   *)
(* driver exec handler) return one of the outcomes the endpoint handles.   *)
(***************************************************************************)
EXTENDS Integers, Sequences, FiniteSets, TLC

\* ---------------------------------------------------------------- bounds
MaxSend == 2          \* output frames the driver handler sends per session
MaxInput == 2         \* input frames the caller writes per session

\* ------------------------------------------------------- program constants
StatusBadRequest == 400
StatusNotFound == 404
StatusInternal == 500

\* ------------------------------------------------------------ input sets
AllocIDs == {"", "a1"}
Tasks == {"web", "db"}
ReqTasks == {""} \cup Tasks
Cmds == {<<>>, <<"/bin/echo", "hi">>}
Namespaces == {"default", "prod"}
AuthTokens == {"", "tok-bad", "tok-none", "tok-exec", "tok-node", "tok-both", "tok-prod"}
ExecIDs == {"exec-1"}

NamespaceCapabilityAllocExec == "alloc-exec"
NamespaceCapabilityAllocNodeExec == "alloc-node-exec"
FSIsolationNone == "none"
FSIsolationChroot == "chroot"
FSIsolationImage == "image"
FSIsolations == {FSIsolationNone, FSIsolationChroot, FSIsolationImage}

\* ---------------------------------------------------------------- errors
NoErr == <<>>
ErrPermissionDenied == <<"Permission denied">>
ErrUnknownAllocation == <<"Unknown allocation">>
ErrOther == <<"internal error">>
ErrTokenNotFound == <<"ACL token not found">>
ErrDecode == <<"decode failed">>
ErrEOF == <<"EOF">>
ErrHandler == <<"driver exec failed">>
allocIDNotPresentErr == <<"allocIDNotPresentErr">>
taskNotPresentErr == <<"taskNotPresentErr">>
ErrCommandNotPresent == <<"command is not present">>
ErrUnknownTask(task) == <<"unknown task name %q", task>>
ErrTaskNotStarted(task) == <<"task %q not started yet.", task>>
ErrTaskNotRunning(task) == <<"task %q is not running.", task>>

IsErrUnknownAllocation(e) == e = ErrUnknownAllocation

LookupErrors == {ErrUnknownAllocation, ErrOther}

\* ------------------------------------------------------------ the request
ZeroRequest == [AllocID |-> "", Task |-> "", Cmd |-> <<>>, Tty |-> FALSE, AuthToken |-> ""]
Requests == [AllocID : AllocIDs, Task : ReqTasks, Cmd : Cmds, Tty : {FALSE}, AuthToken : AuthTokens]

\* ------------------------------------------------- credential resolution
NoCaps == [ns \in Namespaces |-> {}]
TokenCaps(tok) ==
  CASE tok = "tok-exec" -> [NoCaps EXCEPT !["default"] = {NamespaceCapabilityAllocExec}]
    [] tok = "tok-node" -> [NoCaps EXCEPT !["default"] = {NamespaceCapabilityAllocNodeExec}]
    [] tok = "tok-both" -> [NoCaps EXCEPT !["default"] = {NamespaceCapabilityAllocExec, NamespaceCapabilityAllocNodeExec}]
    [] tok = "tok-prod" -> [NoCaps EXCEPT !["prod"] = {NamespaceCapabilityAllocExec, NamespaceCapabilityAllocNodeExec}]
    [] OTHER -> NoCaps

\* (aclObj, token, err): no credential is the implicitly trusted context
\* (nil ACL object, nil token); an unresolvable credential is an error.
resolveTokenAndACL(tok) ==
  CASE tok = "" -> [aclObj |-> {}, token |-> {}, err |-> NoErr]
    [] tok = "tok-bad" -> [aclObj |-> {}, token |-> {}, err |-> ErrTokenNotFound]
    [] OTHER -> [aclObj |-> {TokenCaps(tok)},
                 token |-> {[Name |-> tok, AccessorID |-> <<"accessor", tok>>]},
                 err |-> NoErr]

\* acl.ACL.AllowNsOp on a non-nil ACL object
AllowNsOp(acl, ns, cap) == cap \in acl[ns]

\* ------------------------------------------------------------ envelopes
\* cstructs.StreamErrWrapper{Payload, Error}
DataEnvelope(payload) == [Payload |-> payload, Error |-> {}]
ErrorEnvelope(e, c) == [Payload |-> <<>>, Error |-> {[Message |-> e, Code |-> c]}]
IsErrorWrapper(env) == env.Error # {}

\* ------------------------------------------------- callers of the stream
\* goroutines of the driver handler that call Send
Writers == {"w1", "w2"}
\* one writer; several writers that serialize their calls; several writers
\* that call Send concurrently
Disciplines == {"single", "serialized", "concurrent"}

\* ------------------------------------------------- nix hook: task config
\* values of req.Task.Config (interface{}): unset, a list, a bool, a string
Unset == [kind |-> "unset", items |-> <<>>, b |-> FALSE]
ListOf(items) == [kind |-> "list", items |-> items, b |-> FALSE]
BoolVal(b) == [kind |-> "bool", items |-> <<>>, b |-> b]
StringVal == [kind |-> "string", items |-> <<>>, b |-> FALSE]
Str(s) == [kind |-> "string", s |-> s]
NotStr == [kind |-> "int", s |-> "7"]

InstallablesValues ==
  {Unset, StringVal, ListOf(<<>>), ListOf(<<NotStr>>), ListOf(<<Str("pkgs#hello")>>),
   ListOf(<<Str("pkgs#hello"), Str("pkgs#cowsay")>>)}
InstallArgsValues == {Unset, StringVal, ListOf(<<Str("--impure")>>)}
NixHostValues == {Unset, StringVal, BoolVal(TRUE), BoolVal(FALSE)}
TaskUsers == {"", "alice"}

PrestartRequests ==
  [nix_installables : InstallablesValues, nix_profile_install_args : InstallArgsValues,
   nix_host : NixHostValues, User : TaskUsers]
ZeroPrestartRequest ==
  [nix_installables |-> Unset, nix_profile_install_args |-> Unset, nix_host |-> Unset,
   User |-> ""]

\* the task directory: the current-alloc profile link, the installables
\* built, the nix state directory and its ownership
EmptyTaskDir == [link |-> FALSE, built |-> <<>>, stateDir |-> FALSE, chowned |-> FALSE]

VARIABLES
  pc,             \* position of Allocations.exec / execImpl
  execID,         \* uuid.Generate()
  DisableRemoteExec, \* a.c.GetConfig().DisableRemoteExec
  TaskStates,     \* node state: task name -> *TaskState
  execHandlers,   \* node state: task name -> driver exec handle present
  req,            \* decoded AllocExecRequest
  ar,             \* alloc runner found by getAllocRunner
  aclObj, token,  \* result of resolveTokenAndACL
  capabilities,   \* result of GetTaskDriverCapabilities
  allocState,     \* result of GetAllocState: its TaskStates mapping
  taskState,      \* allocState.TaskStates[req.Task]
  h,              \* result of GetTaskExecHandler
  ctx,            \* session context: "none", "active", "cancelled"
  code, err,      \* named results of execImpl
  handlerInvoked, \* the driver exec handler has been called
  sent,           \* frames the handler passed to Send, in call order
  buf,            \* execStream.buf, the reused frame buffer
  recvd,          \* input frames Recv returned to the handler
  streamErr,      \* last error Send or Recv returned to the handler
  wire,           \* envelopes encoded onto the connection by the agent
  inbox,          \* input frames written by the caller, not yet decoded
  inputs,         \* input frames the caller has written, in write order
  peerClosed,     \* the caller has closed its end
  connClosed,     \* conn.Close() has run
  log,            \* a.c.logger entries
  discipline,     \* how the handler's goroutines call Send
  wpc,            \* position of each writer inside execStream.Send
  wmsg,           \* the frame each writer passed to Send
  rpc,            \* position of the reader inside execStream.Recv
  hookPc,         \* position of nixHook.Prestart
  hookReq,        \* the TaskPrestartRequest
  resp,           \* the TaskPrestartResponse
  hookErr,        \* error returned by Prestart
  installables,   \* local of Prestart
  profileInstallArgs, \* local of Prestart
  mount,          \* local of Prestart
  ids,            \* locals uid, gid of Prestart
  taskDir         \* what Prestart did to the task directory

vars == <<pc, execID, DisableRemoteExec, TaskStates, execHandlers, req, ar, aclObj,
          token, capabilities, allocState, taskState, h, ctx, code, err, handlerInvoked, sent, buf,
          recvd, streamErr, wire, inbox, inputs, peerClosed, connClosed, log,
          discipline, wpc, wmsg, rpc, hookPc, hookReq, resp, hookErr, installables,
          profileInstallArgs, mount, ids, taskDir>>

nodeVars == <<DisableRemoteExec, TaskStates, execHandlers>>
localVars == <<ar, aclObj, token, capabilities, allocState, taskState, h>>
streamVars == <<sent, buf, recvd, streamErr, inbox, inputs, peerClosed>>
sendVars == <<discipline, wpc, wmsg, rpc>>
hookVars == <<hookPc, hookReq, resp, hookErr, installables, profileInstallArgs, mount, ids,
              taskDir>>
auxVars == <<sendVars, hookVars>>

\* ------------------------------------------------------------ node state
StartedTask == [StartedAt |-> 1]
PendingTask == [StartedAt |-> 0]
IsZero(t) == t = 0

\* a task is absent, pending, or started; only a started task has a handle
NodeTaskOptions == {<<{}, FALSE>>, <<{PendingTask}, FALSE>>,
                    <<{StartedTask}, TRUE>>, <<{StartedTask}, FALSE>>}

LogEntry(msg, id, name, accessor, c, e) ==
  [msg |-> msg, exec_id |-> id, access_token_name |-> name,
   access_token_id |-> accessor, code |-> c, error |-> e]

\* no Send or Recv call in progress
StreamIdle ==
  /\ wpc = [w \in Writers |-> "idle"]
  /\ wmsg = [w \in Writers |-> {}]
  /\ rpc = "idle"

\* Prestart not yet called: zero locals, response not done, no mounts
HookStart ==
  /\ hookPc = "start"
  /\ resp = [Done |-> FALSE, Mounts |-> <<>>]
  /\ hookErr = NoErr
  /\ installables = <<>> /\ profileInstallArgs = <<>>
  /\ mount = FALSE
  /\ ids = [uid |-> 0, gid |-> 0]

\* exec has generated the session ID and created its decoder and encoder
ExecInit ==
  /\ pc = "decode"
  /\ execID \in ExecIDs
  /\ DisableRemoteExec \in BOOLEAN
  /\ \E f \in [Tasks -> NodeTaskOptions] :
       /\ TaskStates = [t \in Tasks |-> f[t][1]]
       /\ execHandlers = [t \in Tasks |-> f[t][2]]
  /\ req = ZeroRequest
  /\ ar = {} /\ aclObj = {} /\ token = {} /\ capabilities = {}
  /\ allocState = {} /\ taskState = {} /\ h = {}
  /\ ctx = "none"
  /\ code = {} /\ err = NoErr
  /\ handlerInvoked = FALSE
  /\ sent = <<>> /\ buf = <<>> /\ recvd = <<>> /\ streamErr = NoErr
  /\ wire = <<>> /\ inbox = <<>> /\ inputs = <<>>
  /\ peerClosed = FALSE /\ connClosed = FALSE
  /\ log = <<>>

Init ==
  /\ ExecInit
  /\ discipline = "single" /\ StreamIdle
  /\ HookStart /\ hookReq = ZeroPrestartRequest /\ taskDir = EmptyTaskDir

\* cancel() called on the error returns only, not deferred
ReturnCancelOnErrorOnly(c, e, c0) ==
  /\ code' = c
  /\ err' = e
  /\ pc' = "returned"
  /\ ctx' = IF c0 # "none" /\ e # NoErr THEN "cancelled" ELSE c0

\* execImpl returns (c, e); the deferred cancel() of line 262 runs when the
\* context has been created (c0 is the context at the return statement)
Return(c, e, c0) ==
  /\ code' = c
  /\ err' = e
  /\ pc' = "returned"
  /\ ctx' = IF c0 = "none" THEN "none" ELSE "cancelled"

\* lines 163-168: decode the arguments
Decode ==
  /\ pc = "decode"
  /\ \/ /\ \E r \in Requests : req' = r
        /\ log' = Append(log, LogEntry("alloc_exec: parsed args", "", "", "", {}, NoErr))
        /\ pc' = "checkRemoteExec"
        /\ UNCHANGED <<code, err, ctx>>
     \/ /\ \E e \in {ErrDecode, ErrEOF} :
             /\ log' = Append(log, LogEntry("alloc_exec: failed to decode request", "", "", "", {}, e))
             /\ Return({StatusInternal}, e, ctx)
        /\ UNCHANGED req
  /\ UNCHANGED <<auxVars, execID, nodeVars, localVars, handlerInvoked, streamVars, wire, connClosed>>

\* line 170 never taken
RemoteExecDisabledIgnored(disabled) == FALSE

\* line 170
RemoteExecDisabled(disabled) == disabled

\* line 174 testing the wrong request field
AllocIDMissingWrongField(r) == r.Task = ""

\* line 174
AllocIDMissing(r) == r.AllocID = ""

\* lines 170-176: remote exec switch, then the allocation ID
CheckRemoteExec ==
  /\ pc = "checkRemoteExec"
  /\ IF RemoteExecDisabled(DisableRemoteExec)
       THEN Return({}, ErrPermissionDenied, ctx)
       ELSE IF AllocIDMissing(req)
         THEN Return({StatusBadRequest}, allocIDNotPresentErr, ctx)
         ELSE /\ pc' = "getAllocRunner"
              /\ UNCHANGED <<code, err, ctx>>
  /\ UNCHANGED <<auxVars, execID, nodeVars, req, localVars, handlerInvoked, streamVars, wire,
                 connClosed, log>>

\* lines 179-182 with a status outside the endpoint's vocabulary
LookupCodeUnavailable(e) == IF IsErrUnknownAllocation(e) THEN StatusNotFound ELSE 503

\* lines 179-182 without the unknown-allocation case
LookupCodeAlways500(e) == StatusInternal

\* lines 179-182, 225-228, 243-246: status of a failed lookup
LookupCode(e) == IF IsErrUnknownAllocation(e) THEN StatusNotFound ELSE StatusInternal

\* lines 177-189 reordered: a failed lookup is reported to a caller only
\* after its credential resolved to the trusted context
getAllocRunnerDenyingFirst ==
  /\ pc = "getAllocRunner"
  /\ \/ /\ \E ns \in Namespaces : ar' = {[Namespace |-> ns]}
        /\ pc' = "resolveToken"
        /\ UNCHANGED <<code, err, ctx, log>>
     \/ /\ \E e \in LookupErrors :
             /\ log' = Append(log, LogEntry("alloc_exec: failed to get alloc runner", "", "", "",
                                            {LookupCode(e)}, e))
             /\ IF resolveTokenAndACL(req.AuthToken).aclObj # {}
                  THEN Return({}, ErrPermissionDenied, ctx)
                  ELSE Return({LookupCode(e)}, e, ctx)
        /\ UNCHANGED ar
  /\ UNCHANGED <<auxVars, execID, nodeVars, req, aclObj, token, capabilities, allocState, taskState,
                 h, handlerInvoked, streamVars, wire, connClosed>>

\* lines 177-187: find the allocation runner and its allocation
getAllocRunner ==
  /\ pc = "getAllocRunner"
  /\ \/ /\ \E ns \in Namespaces : ar' = {[Namespace |-> ns]}
        /\ pc' = "resolveToken"
        /\ UNCHANGED <<code, err, ctx, log>>
     \/ /\ \E e \in LookupErrors :
             /\ log' = Append(log, LogEntry("alloc_exec: failed to get alloc runner", "", "", "",
                                            {LookupCode(e)}, e))
             /\ Return({LookupCode(e)}, e, ctx)
        /\ UNCHANGED ar
  /\ UNCHANGED <<auxVars, execID, nodeVars, req, aclObj, token, capabilities, allocState, taskState,
                 h, handlerInvoked, streamVars, wire, connClosed>>

\* namespace of alloc := ar.Alloc()
AllocNamespace(runner) == (CHOOSE a \in runner : TRUE).Namespace

\* line 211 granting on a capability held in any namespace
AllocExecDeniedAnyNamespace(acl, ns) ==
  acl # {} /\ \A a \in acl : \A n \in Namespaces : ~AllowNsOp(a, n, NamespaceCapabilityAllocExec)

\* line 211 without the nil check on the ACL object
AllocExecDeniedNoNilCheck(acl, ns) ==
  \A a \in acl \cup {NoCaps} : ~AllowNsOp(a, ns, NamespaceCapabilityAllocExec)

\* line 211: the alloc-exec check applies to a non-nil ACL object only
AllocExecDenied(acl, ns) ==
  acl # {} /\ \A a \in acl : ~AllowNsOp(a, ns, NamespaceCapabilityAllocExec)

\* lines 192-195 leaving the identity out of the session-start entry
TokenNameBlank(tk) == ""

\* lines 192-195: identity recorded by the session-start entry
TokenName(tk) == IF tk = {} THEN "" ELSE (CHOOSE t \in tk : TRUE).Name
TokenID(tk) == IF tk = {} THEN <<>> ELSE (CHOOSE t \in tk : TRUE).AccessorID

\* lines 189-213: resolve the credential, log the attempt, check alloc-exec
ResolveToken ==
  /\ pc = "resolveToken"
  /\ LET r == resolveTokenAndACL(req.AuthToken) IN
       /\ aclObj' = r.aclObj
       /\ token' = r.token
       /\ log' = Append(log, LogEntry("task exec session starting", execID,
                                      TokenName(r.token), TokenID(r.token), {}, NoErr))
       /\ IF r.err # NoErr
            THEN Return({}, r.err, ctx)
            ELSE IF AllocExecDenied(r.aclObj, AllocNamespace(ar))
              THEN Return({}, ErrPermissionDenied, ctx)
              ELSE /\ pc' = "validateArgs"
                   /\ UNCHANGED <<code, err, ctx>>
  /\ UNCHANGED <<auxVars, execID, nodeVars, req, ar, capabilities, allocState, taskState, h,
                 handlerInvoked, streamVars, wire, connClosed>>

\* line 216
TaskMissing(r) == r.Task = ""

\* line 219
CmdMissing(r) == Len(r.Cmd) = 0

\* lines 215-221: validate the arguments
ValidateArgs ==
  /\ pc = "validateArgs"
  /\ IF TaskMissing(req)
       THEN Return({StatusBadRequest}, taskNotPresentErr, ctx)
       ELSE IF CmdMissing(req)
         THEN Return({StatusBadRequest}, ErrCommandNotPresent, ctx)
         ELSE /\ pc' = "getCapabilities"
              /\ UNCHANGED <<code, err, ctx>>
  /\ UNCHANGED <<auxVars, execID, nodeVars, req, localVars, handlerInvoked, streamVars, wire,
                 connClosed, log>>

\* lines 234-238 asking for alloc-exec a second time
NodeExecDeniedWrongCapability(acl, caps, ns) ==
  /\ acl # {}
  /\ caps.FSIsolation = FSIsolationNone
  /\ \A a \in acl : ~AllowNsOp(a, ns, NamespaceCapabilityAllocExec)

\* lines 234-238: an unisolated task also needs alloc-node-exec
NodeExecDenied(acl, caps, ns) ==
  /\ acl # {}
  /\ caps.FSIsolation = FSIsolationNone
  /\ \A a \in acl : ~AllowNsOp(a, ns, NamespaceCapabilityAllocNodeExec)

\* lines 223-239: driver capabilities of the task, then the node access check
GetTaskDriverCapabilities ==
  /\ pc = "getCapabilities"
  /\ \/ \E iso \in FSIsolations :
          LET caps == [FSIsolation |-> iso] IN
            /\ capabilities' = {caps}
            /\ IF NodeExecDenied(aclObj, caps, AllocNamespace(ar))
                 THEN Return({}, ErrPermissionDenied, ctx)
                 ELSE /\ pc' = "getAllocState"
                      /\ UNCHANGED <<code, err, ctx>>
     \/ /\ \E e \in LookupErrors : Return({LookupCode(e)}, e, ctx)
        /\ UNCHANGED capabilities
  /\ UNCHANGED <<auxVars, execID, nodeVars, req, ar, aclObj, token, allocState, taskState, h,
                 handlerInvoked, streamVars, wire, connClosed, log>>

\* line 253 never taken
TaskUnknownSkipped(ts) == FALSE

\* line 253
TaskUnknown(ts) == ts = {}

\* line 257 never taken
TaskNotStartedSkipped(ts) == FALSE

\* line 257
TaskNotStarted(ts) == \A t \in ts : IsZero(t.StartedAt)

\* lines 241-259: read the allocation state, check the task is there and started
GetAllocState ==
  /\ pc = "getAllocState"
  /\ \/ LET ts == TaskStates[req.Task] IN
          /\ allocState' = {TaskStates}
          /\ taskState' = ts
          /\ IF TaskUnknown(ts)
               THEN Return({StatusBadRequest}, ErrUnknownTask(req.Task), ctx)
               ELSE IF TaskNotStarted(ts)
                 THEN Return({StatusNotFound}, ErrTaskNotStarted(req.Task), ctx)
                 ELSE /\ pc' = "getExecHandler"
                      /\ UNCHANGED <<code, err, ctx>>
     \/ /\ \E e \in LookupErrors : Return({LookupCode(e)}, e, ctx)
        /\ UNCHANGED <<allocState, taskState>>
  /\ UNCHANGED <<auxVars, execID, nodeVars, req, ar, aclObj, token, capabilities, h, handlerInvoked,
                 streamVars, wire, connClosed, log>>

\* line 265 never taken
HandlerAbsentSkipped(hd) == FALSE

\* line 265
HandlerAbsent(hd) == hd = {}

\* line 264 taking the handle of a task seen started for granted
TaskExecHandlerAssumed(handlers, task) == {"handler"}

\* line 264: ar.GetTaskExecHandler(req.Task) reads the live task runner
TaskExecHandler(handlers, task) == IF handlers[task] THEN {"handler"} ELSE {}

\* lines 261-267: create the session context, fetch the driver exec handle
GetTaskExecHandler ==
  /\ pc = "getExecHandler"
  /\ LET hd == TaskExecHandler(execHandlers, req.Task) IN
       /\ h' = hd
       /\ IF HandlerAbsent(hd)
            THEN Return({StatusNotFound}, ErrTaskNotRunning(req.Task), "active")
            ELSE /\ pc' = "invoke"
                 /\ ctx' = "active"
                 /\ UNCHANGED <<code, err>>
  /\ UNCHANGED <<auxVars, execID, nodeVars, req, ar, aclObj, token, capabilities, allocState,
                 taskState, handlerInvoked, streamVars, wire, connClosed, log>>

\* line 269: call the driver exec handler with a new exec stream
InvokeHandler ==
  /\ pc = "invoke"
  /\ handlerInvoked' = TRUE
  /\ pc' = "handler"
  /\ UNCHANGED <<auxVars, execID, nodeVars, req, localVars, ctx, code, err, streamVars, wire,
                 connClosed, log>>

\* ------------------------------------------------------------ exec stream
\* drivers.ExecTaskStreamingResponseMsg
StdoutFrame(data) == [Stdout |-> data, Stderr |-> <<>>, Exited |-> FALSE, ExitCode |-> 0]
ExitFrame(c) == [Stdout |-> <<>>, Stderr |-> <<>>, Exited |-> TRUE, ExitCode |-> c]
OutputFrames == {StdoutFrame(<<"hi">>), ExitFrame(0)}
InputFrames == {<<"stdin", "ls">>, <<"close">>}

\* frameCodec.MustEncode(m): the frame as a sequence of key/value fields,
\* empty fields omitted
EncodeFrame(m) ==
  (IF m.Stdout # <<>> THEN << <<"stdout", m.Stdout>> >> ELSE <<>>) \o
  (IF m.Stderr # <<>> THEN << <<"stderr", m.Stderr>> >> ELSE <<>>) \o
  (IF m.Exited THEN << <<"exited", <<"true">> >>, <<"result", <<m.ExitCode>> >> >> ELSE <<>>)

\* the inverse of EncodeFrame: later fields overwrite earlier ones
RECURSIVE DecodeFields(_, _)
DecodeFields(fields, m) ==
  IF fields = <<>> THEN m
  ELSE LET f == Head(fields) IN
       DecodeFields(Tail(fields),
         CASE f[1] = "stdout" -> [m EXCEPT !.Stdout = f[2]]
           [] f[1] = "stderr" -> [m EXCEPT !.Stderr = f[2]]
           [] f[1] = "exited" -> [m EXCEPT !.Exited = (f[2] = <<"true">>)]
           [] f[1] = "result" -> [m EXCEPT !.ExitCode = f[2][1]]
           [] OTHER -> m)

DecodeFrame(payload) ==
  DecodeFields(payload, [Stdout |-> <<>>, Stderr |-> <<>>, Exited |-> FALSE, ExitCode |-> 0])

\* line 305 left out: the buffer keeps the bytes of the earlier frames
BufResetSkipped(b) == b

\* lines 305-306: s.buf.Reset()
BufReset(b) == <<>>

\* line 306 left out: the frame codec does not write into the buffer
MustEncodeDetached(b, m) == b

\* lines 306-308: s.frameCodec.MustEncode(m) appends the frame to the buffer
MustEncode(b, m) == b \o EncodeFrame(m)

\* line 309 writing the envelope ahead of the ones already on the connection
EncodeToConnOutOfOrder(w, env) == <<env>> \o w

\* line 309: s.encoder.Encode writes the envelope to the connection
EncodeToConn(w, env) == Append(w, env)

\* lines 303-312: Send one output frame as the payload of an envelope
Send ==
  /\ pc = "handler"
  /\ Len(sent) < MaxSend
  /\ \E m \in OutputFrames :
       /\ log' = Append(log, LogEntry("alloc_exec: sending event", "", "", "", {}, NoErr))
       /\ buf' = MustEncode(BufReset(buf), m)
       /\ wire' = EncodeToConn(wire, DataEnvelope(buf'))
       /\ sent' = Append(sent, m)
  /\ streamErr' = IF peerClosed THEN ErrEOF ELSE streamErr
  /\ UNCHANGED <<auxVars, pc, execID, nodeVars, req, localVars, ctx, code, err, handlerInvoked,
                 recvd, inbox, inputs, peerClosed, connClosed>>

\* lines 315-319 with a decoder that never notices the closed connection
RecvBlocksForever ==
  /\ pc = "handler"
  /\ inbox # <<>>
  /\ recvd' = Append(recvd, Head(inbox))
  /\ inbox' = Tail(inbox)
  /\ UNCHANGED <<auxVars, pc, execID, nodeVars, req, localVars, ctx, code, err, handlerInvoked,
                 sent, buf, streamErr, inputs, peerClosed, wire, connClosed, log>>

\* lines 315-319: Recv decodes the next input frame, or fails when the
\* connection is gone
Recv ==
  /\ pc = "handler"
  /\ \/ /\ inbox # <<>>
        /\ recvd' = Append(recvd, Head(inbox))
        /\ inbox' = Tail(inbox)
        /\ UNCHANGED streamErr
     \/ /\ inbox = <<>>
        /\ peerClosed
        /\ streamErr' = ErrEOF
        /\ UNCHANGED <<recvd, inbox>>
  /\ UNCHANGED <<auxVars, pc, execID, nodeVars, req, localVars, ctx, code, err, handlerInvoked,
                 sent, buf, inputs, peerClosed, wire, connClosed, log>>

\* results the driver exec handler may return: success, a driver failure,
\* or the error its last Send/Recv returned
HandlerResults == {NoErr, ErrHandler} \cup {streamErr}

\* line 271 classifying the handler error the way a failed lookup is
HandlerErrorCodeByKind(e) == IF e = ErrEOF THEN StatusNotFound ELSE StatusInternal

\* line 271: every handler error has status 500
HandlerErrorCode(e) == StatusInternal

\* lines 269-277: the handler returns
HandlerReturn ==
  /\ pc = "handler"
  /\ \E e \in HandlerResults :
       IF e # NoErr
         THEN /\ log' = Append(log, LogEntry("alloc_exec: handler call failed", "", "", "",
                                             {HandlerErrorCode(e)}, e))
              /\ Return({HandlerErrorCode(e)}, e, ctx)
         ELSE /\ log' = Append(log, LogEntry("alloc_exec: finished without error", "", "", "",
                                             {}, NoErr))
              /\ Return({}, NoErr, ctx)
  /\ UNCHANGED <<auxVars, execID, nodeVars, req, localVars, handlerInvoked, streamVars, wire,
                 connClosed>>

\* ------------------------------------------------------------ the caller
PeerWrite ==
  /\ pc = "handler"
  /\ ~peerClosed
  /\ Len(inputs) < MaxInput
  /\ \E f \in InputFrames :
       /\ inbox' = Append(inbox, f)
       /\ inputs' = Append(inputs, f)
  /\ UNCHANGED <<auxVars, pc, execID, nodeVars, req, localVars, ctx, code, err, handlerInvoked,
                 sent, buf, recvd, streamErr, peerClosed, wire, connClosed, log>>

PeerClose ==
  /\ pc = "handler"
  /\ ~peerClosed
  /\ peerClosed' = TRUE
  /\ UNCHANGED <<auxVars, pc, execID, nodeVars, req, localVars, ctx, code, err, handlerInvoked,
                 sent, buf, recvd, streamErr, inbox, inputs, wire, connClosed, log>>

\* ------------------------------------------------------------ exec
\* handleStreamResultError(err, code, encoder): one envelope carrying the
\* error and its status code
handleStreamResultError(e, c, w) == Append(w, ErrorEnvelope(e, c))

\* line 151 testing the status code instead of the error
SessionFailedByCode(c, e) == c # {}

\* line 154 left out: the error exit reports the failure again
ExecExitReportsAgain(failed) == IF failed THEN "returned" ELSE "close"

\* conn.Close() not deferred: the error exit returns before it
ExecExitNoDefer(failed) == IF failed THEN "done" ELSE "close"

\* line 151 left out: every session is reported as failed
SessionFailedAlways(c, e) == TRUE

\* line 151: exec looks at the error, not at the status code
SessionFailed(c, e) == e # NoErr

\* lines 144, 154, 158: both exits of exec run the deferred conn.Close()
ExecExit(failed) == "close"

\* lines 150-157: report the outcome of execImpl
ExecReport ==
  /\ pc = "returned"
  /\ IF SessionFailed(code, err)
       THEN /\ log' = Append(log, LogEntry("task exec session ended with an error", "", "", "",
                                           code, err))
            /\ wire' = handleStreamResultError(err, code, wire)
       ELSE /\ log' = Append(log, LogEntry("task exec session ended", execID, "", "", {}, NoErr))
            /\ UNCHANGED wire
  /\ pc' = ExecExit(SessionFailed(code, err))
  /\ UNCHANGED <<auxVars, execID, nodeVars, req, localVars, ctx, code, err, handlerInvoked,
                 streamVars, connClosed>>

\* line 144: the deferred conn.Close() runs when exec returns
ConnClose ==
  /\ pc = "close"
  /\ connClosed' = TRUE
  /\ pc' = "done"
  /\ UNCHANGED <<auxVars, execID, nodeVars, req, localVars, ctx, code, err, handlerInvoked,
                 streamVars, wire, log>>

\* --------------------------------------------------- live node state
SessionRunning == pc \notin {"decode", "returned", "close", "done"}

\* a pending task starts: its start time is set and its driver handle appears
TaskStart ==
  /\ SessionRunning
  /\ \E t \in Tasks :
       /\ TaskStates[t] = {PendingTask}
       /\ TaskStates' = [TaskStates EXCEPT ![t] = {StartedTask}]
       /\ execHandlers' = [execHandlers EXCEPT ![t] = TRUE]
  /\ UNCHANGED <<auxVars, pc, execID, DisableRemoteExec, req, localVars, ctx, code, err,
                 handlerInvoked, streamVars, wire, connClosed, log>>

\* a running task stops: its driver handle disappears
TaskStop ==
  /\ SessionRunning
  /\ \E t \in Tasks :
       /\ execHandlers[t]
       /\ execHandlers' = [execHandlers EXCEPT ![t] = FALSE]
  /\ UNCHANGED <<auxVars, pc, execID, DisableRemoteExec, TaskStates, req, localVars, ctx, code, err,
                 handlerInvoked, streamVars, wire, connClosed, log>>

Next ==
  \/ Decode
  \/ CheckRemoteExec
  \/ getAllocRunner
  \/ ResolveToken
  \/ ValidateArgs
  \/ GetTaskDriverCapabilities
  \/ GetAllocState
  \/ GetTaskExecHandler
  \/ InvokeHandler
  \/ Send
  \/ Recv
  \/ HandlerReturn
  \/ PeerWrite
  \/ PeerClose
  \/ ExecReport
  \/ ConnClose
  \/ TaskStart
  \/ TaskStop

Spec == Init /\ [][Next]_vars

\* ------------------------------------------ an established session
\* The environment of a session that reaches the driver handler: remote exec
\* enabled, a well-formed request from a caller granted alloc-exec, task
\* "web" started with its exec handle present and an isolated filesystem,
\* every lookup succeeding.
EstablishedRequests ==
  {r \in Requests : /\ r.AllocID = "a1" /\ r.Task = "web" /\ r.Cmd = <<"/bin/echo", "hi">>
                    /\ r.AuthToken \in {"tok-exec", "tok-both"}}

EstablishedInit ==
  Init /\ ~DisableRemoteExec /\ TaskStates["web"] = {StartedTask} /\ execHandlers["web"]

EstDecode == Decode /\ req' \in EstablishedRequests
EstGetAllocRunner == getAllocRunner /\ ar' = {[Namespace |-> "default"]}
EstGetTaskDriverCapabilities ==
  GetTaskDriverCapabilities /\ capabilities' \in {{[FSIsolation |-> FSIsolationChroot]},
                                                  {[FSIsolation |-> FSIsolationImage]}}
EstGetAllocState == GetAllocState /\ allocState' # {}
EstTaskStop == TaskStop /\ execHandlers'["web"]

\* the steps of exec and execImpl up to the call of the handler
Establish ==
  \/ EstDecode
  \/ CheckRemoteExec
  \/ EstGetAllocRunner
  \/ ResolveToken
  \/ ValidateArgs
  \/ EstGetTaskDriverCapabilities
  \/ EstGetAllocState
  \/ GetTaskExecHandler
  \/ InvokeHandler

\* the handler gives up once a Send or Recv has failed
HandlerReturnAfterStreamError == streamErr # NoErr /\ HandlerReturn

CancelNext ==
  \/ EstDecode
  \/ CheckRemoteExec
  \/ EstGetAllocRunner
  \/ ResolveToken
  \/ ValidateArgs
  \/ EstGetTaskDriverCapabilities
  \/ EstGetAllocState
  \/ GetTaskExecHandler
  \/ InvokeHandler
  \/ Send
  \/ Recv
  \/ HandlerReturn
  \/ PeerWrite
  \/ PeerClose
  \/ ExecReport
  \/ ConnClose
  \/ TaskStart
  \/ EstTaskStop

\* a handler blocked in Recv gets Recv's result, and returns once a stream
\* call has failed
CancelSpec ==
  EstablishedInit /\ [][CancelNext]_vars /\ WF_vars(Recv) /\ WF_vars(HandlerReturnAfterStreamError)

\* a handler that writes output, ends with one exit frame and returns nil
Exited == \E i \in DOMAIN sent : sent[i].Exited
E2ESendOutput == ~Exited /\ Len(sent) < MaxSend - 1 /\ Send /\ ~sent'[Len(sent')].Exited
E2ESendExit == ~Exited /\ Send /\ sent'[Len(sent')].Exited
E2EHandlerReturn == Exited /\ HandlerReturn /\ err' = NoErr

\* the steps the endpoint and the handler take by themselves
E2ESteps == Establish \/ E2ESendExit \/ E2EHandlerReturn \/ ExecReport \/ ConnClose

E2ENext ==
  \/ EstDecode
  \/ CheckRemoteExec
  \/ EstGetAllocRunner
  \/ ResolveToken
  \/ ValidateArgs
  \/ EstGetTaskDriverCapabilities
  \/ EstGetAllocState
  \/ GetTaskExecHandler
  \/ InvokeHandler
  \/ E2ESendOutput
  \/ E2ESendExit
  \/ Recv
  \/ E2EHandlerReturn
  \/ PeerWrite
  \/ ExecReport
  \/ ConnClose
  \/ TaskStart
  \/ EstTaskStop

E2ESpec == EstablishedInit /\ [][E2ENext]_vars /\ WF_vars(E2ESteps)

\* ------------------------------------- Send and Recv, statement by statement
\* The exec stream inside a session whose handler is running: one or two
\* goroutines of the handler call Send while another calls Recv.  A call
\* advances one statement at a time, so calls interleave.
execVars == <<pc, execID, nodeVars, req, localVars, ctx, code, err, handlerInvoked, connClosed>>

StreamInit ==
  /\ pc = "handler"
  /\ execID \in ExecIDs
  /\ DisableRemoteExec = FALSE
  /\ TaskStates = [t \in Tasks |-> {StartedTask}]
  /\ execHandlers = [t \in Tasks |-> TRUE]
  /\ req = [AllocID |-> "a1", Task |-> "web", Cmd |-> <<"/bin/echo", "hi">>, Tty |-> FALSE,
            AuthToken |-> ""]
  /\ ar = {[Namespace |-> "default"]} /\ aclObj = {} /\ token = {}
  /\ capabilities = {[FSIsolation |-> FSIsolationChroot]}
  /\ allocState = {TaskStates} /\ taskState = {StartedTask} /\ h = {"handler"}
  /\ ctx = "active"
  /\ code = {} /\ err = NoErr
  /\ handlerInvoked = TRUE
  /\ sent = <<>> /\ buf = <<>> /\ recvd = <<>> /\ streamErr = NoErr
  /\ wire = <<>> /\ inbox = <<>> /\ inputs = <<>>
  /\ peerClosed = FALSE /\ connClosed = FALSE
  /\ log = <<LogEntry("alloc_exec: parsed args", "", "", "", {}, NoErr),
             LogEntry("task exec session starting", execID, "", <<>>, {}, NoErr)>>
  /\ discipline \in Disciplines /\ StreamIdle
  /\ HookStart /\ hookReq = ZeroPrestartRequest /\ taskDir = EmptyTaskDir

InSend == {w \in Writers : wpc[w] # "idle"}

\* what the handler's goroutines do before calling Send: a single writer is
\* always "w1"; serialized writers wait for the call in progress
MayCallSend(w) ==
  /\ wpc[w] = "idle"
  /\ discipline = "single" => w = "w1"
  /\ discipline = "serialized" => InSend = {}
  /\ Len(sent) + Cardinality(InSend) < MaxSend

\* lines 303-304: Send is called with frame m and logs it
SendLog ==
  /\ pc = "handler"
  /\ \E w \in Writers : \E m \in OutputFrames :
       /\ MayCallSend(w)
       /\ wpc' = [wpc EXCEPT ![w] = "reset"]
       /\ wmsg' = [wmsg EXCEPT ![w] = {m}]
  /\ log' = Append(log, LogEntry("alloc_exec: sending event", "", "", "", {}, NoErr))
  /\ UNCHANGED <<execVars, streamVars, wire, discipline, rpc, hookVars>>

\* lines 305-306: s.buf.Reset(); s.frameCodec.Reset(s.buf)
SendBufReset ==
  /\ \E w \in Writers :
       /\ wpc[w] = "reset"
       /\ wpc' = [wpc EXCEPT ![w] = "encode"]
  /\ buf' = BufReset(buf)
  /\ UNCHANGED <<execVars, sent, recvd, streamErr, inbox, inputs, peerClosed, wire, log,
                 discipline, wmsg, rpc, hookVars>>

\* line 308: s.frameCodec.MustEncode(m)
SendMustEncode ==
  /\ \E w \in Writers :
       /\ wpc[w] = "encode"
       /\ wpc' = [wpc EXCEPT ![w] = "write"]
       /\ \E m \in wmsg[w] : buf' = MustEncode(buf, m)
  /\ UNCHANGED <<execVars, sent, recvd, streamErr, inbox, inputs, peerClosed, wire, log,
                 discipline, wmsg, rpc, hookVars>>

\* lines 309-311: s.encoder.Encode(StreamErrWrapper{Payload: s.buf.Bytes()})
SendEncode ==
  /\ \E w \in Writers :
       /\ wpc[w] = "write"
       /\ wpc' = [wpc EXCEPT ![w] = "idle"]
       /\ wmsg' = [wmsg EXCEPT ![w] = {}]
       /\ \E m \in wmsg[w] : sent' = Append(sent, m)
  /\ wire' = EncodeToConn(wire, DataEnvelope(buf))
  /\ streamErr' = IF peerClosed THEN ErrEOF ELSE streamErr
  /\ UNCHANGED <<execVars, buf, recvd, inbox, inputs, peerClosed, log, discipline, rpc,
                 hookVars>>

\* line 316: Recv is called and allocates its own request message
RecvCall ==
  /\ pc = "handler"
  /\ rpc = "idle"
  /\ rpc' = "decode"
  /\ UNCHANGED <<execVars, streamVars, wire, log, discipline, wpc, wmsg, hookVars>>

\* line 317 decoding through the stream's buffer
BufAfterRecvShared(b) == <<>>

\* line 317: s.decoder.Decode(&req) fills Recv's own message; the stream's
\* buffer is not used
BufAfterRecv(b) == b

\* lines 317-318: Recv decodes the next input frame and returns
RecvDecode ==
  /\ rpc = "decode"
  /\ \/ /\ inbox # <<>>
        /\ recvd' = Append(recvd, Head(inbox))
        /\ inbox' = Tail(inbox)
        /\ UNCHANGED streamErr
     \/ /\ inbox = <<>>
        /\ peerClosed
        /\ streamErr' = ErrEOF
        /\ UNCHANGED <<recvd, inbox>>
  /\ buf' = BufAfterRecv(buf)
  /\ rpc' = "idle"
  /\ UNCHANGED <<execVars, sent, inputs, peerClosed, wire, log, discipline, wpc, wmsg,
                 hookVars>>

StreamNext ==
  \/ SendLog
  \/ SendBufReset
  \/ SendMustEncode
  \/ SendEncode
  \/ RecvCall
  \/ RecvDecode
  \/ PeerWrite
  \/ PeerClose

StreamSpec == StreamInit /\ [][StreamNext]_vars

\* ------------------------------- a task that stops while a session starts
\* Every started task has its exec handle when the request arrives, and a
\* task stops only after the session has passed the started check.
RunningInit ==
  Init /\ \A t \in Tasks : TaskStates[t] = {StartedTask} => execHandlers[t]

TaskStopAfterCheck == pc \in {"getExecHandler", "invoke", "handler"} /\ TaskStop

StopRaceNext ==
  \/ Decode
  \/ CheckRemoteExec
  \/ getAllocRunner
  \/ ResolveToken
  \/ ValidateArgs
  \/ GetTaskDriverCapabilities
  \/ GetAllocState
  \/ GetTaskExecHandler
  \/ InvokeHandler
  \/ HandlerReturn
  \/ ExecReport
  \/ ConnClose
  \/ TaskStart
  \/ TaskStopAfterCheck

StopRaceSpec == RunningInit /\ [][StopRaceNext]_vars

\* ------------------------------------------------ nixHook.Prestart
ErrNotAList(key) == <<"%s is not a list: %v", key>>
ErrNotAString(key) == <<"%s[%d] is not a string: %v", key>>
ErrNixHostNotBool == <<"nix_host is not a bool: %v">>
ErrUserLookup(name) == <<"Couldn't look up user %q: %v", name>>
ErrNobodyLookup == <<"Couldn't look up nobody user: %v">>
ErrUid(s) == <<"Couldn't convert uid %q to int: %v", s>>
ErrGid(s) == <<"Couldn't convert gid %q to int: %v", s>>
ErrInstall == <<"nix profile install failed">>
ErrMkdir == <<"mkdir failed">>
ErrChown == <<"chown failed">>

\* lines 60-80: the list of strings under a config key; nil when unset
getStrArr(v, key) ==
  IF v.kind = "unset" THEN [arr |-> <<>>, err |-> NoErr]
  ELSE IF v.kind # "list" THEN [arr |-> <<>>, err |-> ErrNotAList(key)]
  ELSE IF \E i \in DOMAIN v.items : v.items[i].kind # "string"
    THEN [arr |-> <<>>, err |-> ErrNotAString(key)]
  ELSE [arr |-> [i \in DOMAIN v.items |-> v.items[i].s], err |-> NoErr]

\* user records users.Lookup and users.Nobody may return
UserRecords == {[Uid |-> "1000", Gid |-> "100"], [Uid |-> "S-1-5-18", Gid |-> "100"],
                [Uid |-> "1000", Gid |-> "wheel"]}

\* strconv.Atoi on the IDs above
Atoi(str) ==
  CASE str = "1000" -> [n |-> 1000, err |-> NoErr]
    [] str = "100" -> [n |-> 100, err |-> NoErr]
    [] OTHER -> [n |-> 0, err |-> <<"invalid syntax">>]

\* lines 56-58 marking the response done on the success return only
DeferredDoneOnSuccess(e) == e = NoErr

\* lines 56-58: the deferred function runs on every return
DeferredDone(e) == TRUE

\* Prestart returns e; r is the response as the body left it
PrestartReturn(e, r) ==
  /\ hookErr' = e
  /\ hookPc' = "returned"
  /\ resp' = IF DeferredDone(e) THEN [r EXCEPT !.Done = TRUE] ELSE r

\* lines 82-89: the installables; none configured is a successful return
PrestartInstallables ==
  /\ hookPc = "start"
  /\ LET r == getStrArr(hookReq.nix_installables, "nix_installables") IN
       IF r.err # NoErr
         THEN PrestartReturn(r.err, resp) /\ UNCHANGED installables
         ELSE /\ installables' = r.arr
              /\ IF Len(r.arr) = 0
                   THEN PrestartReturn(NoErr, resp)
                   ELSE hookPc' = "installArgs" /\ UNCHANGED <<resp, hookErr>>
  /\ UNCHANGED <<execVars, streamVars, wire, log, sendVars, hookReq, profileInstallArgs,
                 mount, ids, taskDir>>

\* lines 91-94: extra arguments of nix profile install
PrestartInstallArgs ==
  /\ hookPc = "installArgs"
  /\ LET r == getStrArr(hookReq.nix_profile_install_args, "nix_profile_install_args") IN
       IF r.err # NoErr
         THEN PrestartReturn(r.err, resp) /\ UNCHANGED profileInstallArgs
         ELSE /\ profileInstallArgs' = r.arr
              /\ hookPc' = "nixHost"
              /\ UNCHANGED <<resp, hookErr>>
  /\ UNCHANGED <<execVars, streamVars, wire, log, sendVars, hookReq, installables, mount,
                 ids, taskDir>>

\* drivers.MountConfig of lines 103-108
NixMount == [TaskPath |-> "/nix", HostPath |-> "/nix", Readonly |-> FALSE,
             PropagationMode |-> "host-to-task"]

\* lines 96-110: nix_host mounts the host's /nix into the task
PrestartNixHost ==
  /\ hookPc = "nixHost"
  /\ LET v == hookReq.nix_host IN
       IF v.kind = "unset"
         THEN hookPc' = "lookupUser" /\ UNCHANGED <<resp, hookErr, mount>>
         ELSE IF v.kind # "bool"
           THEN PrestartReturn(ErrNixHostNotBool, resp) /\ UNCHANGED mount
           ELSE IF v.b
             THEN /\ mount' = TRUE
                  /\ resp' = [resp EXCEPT !.Mounts = Append(@, NixMount)]
                  /\ hookPc' = "lookupUser"
                  /\ UNCHANGED hookErr
             ELSE hookPc' = "lookupUser" /\ UNCHANGED <<resp, hookErr, mount>>
  /\ UNCHANGED <<execVars, streamVars, wire, log, sendVars, hookReq, installables,
                 profileInstallArgs, ids, taskDir>>

\* lines 112-135: uid and gid of the task user, or of nobody
PrestartLookupUser ==
  /\ hookPc = "lookupUser"
  /\ \/ /\ PrestartReturn(IF hookReq.User # "" THEN ErrUserLookup(hookReq.User)
                                               ELSE ErrNobodyLookup, resp)
        /\ UNCHANGED ids
     \/ \E u \in UserRecords :
          IF Atoi(u.Uid).err # NoErr
            THEN PrestartReturn(ErrUid(u.Uid), resp) /\ UNCHANGED ids
            ELSE IF Atoi(u.Gid).err # NoErr
              THEN PrestartReturn(ErrGid(u.Gid), resp) /\ UNCHANGED ids
              ELSE /\ ids' = [uid |-> Atoi(u.Uid).n, gid |-> Atoi(u.Gid).n]
                   /\ hookPc' = "install"
                   /\ UNCHANGED <<resp, hookErr>>
  /\ UNCHANGED <<execVars, streamVars, wire, log, sendVars, hookReq, installables,
                 profileInstallArgs, mount, taskDir>>

\* lines 137-139, 171-212: h.install does nothing when the current-alloc
\* link exists; otherwise it builds the installables one by one and stops
\* at the first failure
PrestartInstall ==
  /\ hookPc = "install"
  /\ IF taskDir.link
       THEN hookPc' = "stateDir" /\ UNCHANGED <<resp, hookErr, taskDir>>
       ELSE \E k \in 0..Len(installables) : \E ok \in BOOLEAN :
              /\ ok => k = Len(installables)
              /\ taskDir' = [taskDir EXCEPT !.built = SubSeq(installables, 1, k),
                                            !.link = k > 0]
              /\ IF ok
                   THEN hookPc' = "stateDir" /\ UNCHANGED <<resp, hookErr>>
                   ELSE PrestartReturn(ErrInstall, resp)
  /\ UNCHANGED <<execVars, streamVars, wire, log, sendVars, hookReq, installables,
                 profileInstallArgs, mount, ids>>

\* lines 141-161: without the host mount, create and chown the nix state
\* directory; then return nil
PrestartStateDir ==
  /\ hookPc = "stateDir"
  /\ IF mount
       THEN PrestartReturn(NoErr, resp) /\ UNCHANGED taskDir
       ELSE \/ PrestartReturn(ErrMkdir, resp) /\ UNCHANGED taskDir
            \/ /\ PrestartReturn(ErrChown, resp)
               /\ taskDir' = [taskDir EXCEPT !.stateDir = TRUE]
            \/ /\ PrestartReturn(NoErr, resp)
               /\ taskDir' = [taskDir EXCEPT !.stateDir = TRUE, !.chowned = TRUE]
  /\ UNCHANGED <<execVars, streamVars, wire, log, sendVars, hookReq, installables,
                 profileInstallArgs, mount, ids>>

\* Prestart is called with any task configuration, on a task directory
\* with or without an earlier current-alloc link; no exec session runs
NixInit ==
  /\ ExecInit /\ ~DisableRemoteExec /\ TaskStates = [t \in Tasks |-> {}]
  /\ discipline = "single" /\ StreamIdle
  /\ HookStart
  /\ hookReq \in PrestartRequests
  /\ taskDir \in {EmptyTaskDir, [EmptyTaskDir EXCEPT !.link = TRUE]}

NixNext ==
  \/ PrestartInstallables
  \/ PrestartInstallArgs
  \/ PrestartNixHost
  \/ PrestartLookupUser
  \/ PrestartInstall
  \/ PrestartStateDir

NixSpec == NixInit /\ [][NixNext]_vars

\* ================================================================ claims
Returned == pc \in {"returned", "close", "done"}
Logged(msg) == \E i \in DOMAIN log : log[i].msg = msg
Decoded == Logged("alloc_exec: parsed args")
Namespace == AllocNamespace(ar)
Grants(cap) == \A a \in aclObj : cap \in a[Namespace]
Lacks(cap) == \A a \in aclObj : cap \notin a[Namespace]
Isolation == (CHOOSE c \in capabilities : TRUE).FSIsolation
Snapshot == CHOOSE m \in allocState : TRUE
PermissionDenied == Returned /\ code = {} /\ err = ErrPermissionDenied

\* C1: with remote exec enabled and the allocation found, a resolved
\* (non-trusted) capability set lacking alloc-exec for the allocation's
\* namespace ends the session with PermissionDenied, no status code, and the
\* driver exec handler is not invoked.
C1_AllocExecRequired ==
  (~DisableRemoteExec /\ ar # {} /\ aclObj # {} /\ Lacks(NamespaceCapabilityAllocExec))
    => (PermissionDenied /\ ~handlerInvoked)

C1_Witness ==
  /\ pc = "done" /\ ~DisableRemoteExec /\ ar # {} /\ aclObj # {}
  /\ req.AuthToken = "tok-prod" /\ Namespace = "default"
  /\ err = ErrPermissionDenied /\ code = {} /\ ~handlerInvoked

\* C2: for a task whose driver capabilities report filesystem isolation
\* "none", a resolved capability set that grants alloc-exec but lacks
\* alloc-node-exec for the allocation's namespace ends the session with
\* PermissionDenied, no status code, and the handler is not invoked.
C2_NodeExecRequired ==
  (capabilities # {} /\ Isolation = FSIsolationNone /\ aclObj # {}
     /\ Grants(NamespaceCapabilityAllocExec) /\ Lacks(NamespaceCapabilityAllocNodeExec))
    => (PermissionDenied /\ ~handlerInvoked)

C2_Witness ==
  /\ pc = "done" /\ capabilities # {} /\ Isolation = FSIsolationNone
  /\ req.AuthToken = "tok-exec" /\ Namespace = "default"
  /\ err = ErrPermissionDenied /\ code = {} /\ ~handlerInvoked

\* C3: the driver exec handler has been invoked only if every earlier step
\* succeeded: request decoded, remote exec enabled, allocation ID non-empty
\* and found, credential resolved and authorized, task name and command
\* non-empty, driver capabilities resolved, task present in the task-state
\* mapping and started, and a non-nil exec handle obtained.
C3_HandlerOnlyAfterAllChecks ==
  handlerInvoked =>
    /\ Decoded
    /\ ~DisableRemoteExec
    /\ req.AllocID # ""
    /\ ar # {}
    /\ resolveTokenAndACL(req.AuthToken).err = NoErr
    /\ aclObj = resolveTokenAndACL(req.AuthToken).aclObj
    /\ req.Task # ""
    /\ Len(req.Cmd) > 0
    /\ capabilities # {}
    /\ aclObj # {} => /\ Grants(NamespaceCapabilityAllocExec)
                      /\ Isolation = FSIsolationNone => Grants(NamespaceCapabilityAllocNodeExec)
    /\ allocState # {}
    /\ taskState # {}
    /\ \A t \in taskState : t.StartedAt # 0
    /\ h # {}

C3_Witness ==
  /\ handlerInvoked /\ pc = "done" /\ aclObj # {} /\ Isolation = FSIsolationNone
  /\ err = NoErr

\* C4: for the implicitly trusted context (nil ACL object) neither the
\* alloc-exec nor the alloc-node-exec check applies: the session never ends
\* with PermissionDenied after the credential was resolved, and it ends
\* without invoking the handler only when a non-authorization step failed.
C4_Trusted ==
  Logged("task exec session starting") /\ resolveTokenAndACL(req.AuthToken).err = NoErr
    /\ aclObj = {}

C4_TrustedSkipsChecks ==
  C4_Trusted =>
    /\ err # ErrPermissionDenied
    /\ (Returned /\ ~handlerInvoked) =>
         \/ req.Task = ""
         \/ Len(req.Cmd) = 0
         \/ capabilities = {}
         \/ allocState = {}
         \/ taskState = {}
         \/ \E t \in taskState : t.StartedAt = 0
         \/ h = {}

C4_Witness ==
  C4_Trusted /\ handlerInvoked /\ Isolation = FSIsolationNone /\ pc = "done"

\* C5: a session that ends without the handler having been invoked has
\* failed, has written exactly one envelope, an ErrorWrapper carrying the
\* error and its status code, and the connection is closed after that write;
\* no data envelope is written before the handler is invoked.
C5_SingleTerminalEnvelope ==
  ~handlerInvoked =>
    /\ Len(wire) <= 1
    /\ \A i \in DOMAIN wire : wire[i].Error # {} /\ wire[i].Payload = <<>>
    /\ connClosed =>
         /\ err # NoErr
         /\ wire = << [Payload |-> <<>>, Error |-> {[Message |-> err, Code |-> code]}] >>
    /\ pc = "done" => connClosed

C5_Witness ==
  /\ pc = "done" /\ ~handlerInvoked /\ connClosed /\ Len(wire) = 1
  /\ err = ErrPermissionDenied /\ code = {}

\* C6: when exec has returned the connection is closed, on every path, and
\* at the moment it is closed the terminal ErrorWrapper of a failed session
\* is already the last envelope written.
C6_AlwaysClosed ==
  /\ pc = "done" => connClosed
  /\ connClosed =>
       /\ pc = "done"
       /\ err # NoErr =>
            /\ wire # <<>>
            /\ wire[Len(wire)] = [Payload |-> <<>>, Error |-> {[Message |-> err, Code |-> code]}]

C6_Witness ==
  /\ pc = "done" /\ connClosed /\ handlerInvoked /\ err = ErrHandler
  /\ Len(wire) = 2

\* C7: with remote exec enabled, a decoded request with an empty allocation
\* ID ends with status 400 and the handler is not invoked, whatever the
\* other request fields and the credential are.
C7_MissingAllocID ==
  (Decoded /\ ~DisableRemoteExec /\ req.AllocID = "") =>
    /\ ~handlerInvoked
    /\ Returned => code = {StatusBadRequest} /\ err = allocIDNotPresentErr

C7_Witness ==
  /\ pc = "done" /\ Decoded /\ ~DisableRemoteExec /\ req.AllocID = ""
  /\ req.AuthToken = "tok-bad" /\ req.Task = "" /\ code = {StatusBadRequest}

\* C8: a failed allocation lookup ends the session with the lookup error
\* itself, with status 404 when the allocation is unknown to this node and
\* status 500 for any other lookup failure.
C8_LookupFailure ==
  \A i \in DOMAIN log :
    log[i].msg = "alloc_exec: failed to get alloc runner" =>
      /\ Returned
      /\ ~handlerInvoked
      /\ err = log[i].error
      /\ log[i].error = ErrUnknownAllocation => code = {404}
      /\ log[i].error # ErrUnknownAllocation => code = {500}

C8_Witness ==
  /\ pc = "done" /\ Logged("alloc_exec: failed to get alloc runner")
  /\ err = ErrUnknownAllocation /\ code = {404}

C8_WitnessOther ==
  /\ pc = "done" /\ Logged("alloc_exec: failed to get alloc runner")
  /\ err = ErrOther /\ code = {500}

\* C9: a task found in the task-state mapping with a zero start time ends
\* the session with status 404 and the "not started yet" error; a started
\* task without a driver exec handle ends it with status 404 and the "not
\* running" error; the two errors differ.
C9_NotStartedVersusNotRunning ==
  /\ (allocState # {} /\ req.Task \in Tasks /\ Snapshot[req.Task] = {PendingTask}) =>
       /\ Returned /\ ~handlerInvoked
       /\ code = {404}
       /\ err = <<"task %q not started yet.", req.Task>>
  /\ (ctx # "none" /\ h = {}) =>
       /\ Returned /\ ~handlerInvoked
       /\ Snapshot[req.Task] = {StartedTask}
       /\ code = {404}
       /\ err = <<"task %q is not running.", req.Task>>
  /\ <<"task %q not started yet.", req.Task>> # <<"task %q is not running.", req.Task>>

C9_Witness ==
  /\ pc = "done" /\ allocState # {} /\ taskState = {PendingTask}
  /\ code = {404} /\ err = ErrTaskNotStarted(req.Task)

C9_WitnessNotRunning ==
  /\ pc = "done" /\ ctx = "cancelled" /\ h = {} /\ taskState = {StartedTask}
  /\ code = {404} /\ err = ErrTaskNotRunning(req.Task)

\* C10: when the request's non-empty task name is not a key of the task-state
\* mapping read from the allocation state, the session ends with status 400
\* and the "unknown task name" error, and the handler is not invoked.
C10_UnknownTask ==
  (allocState # {} /\ req.Task # "" /\ Snapshot[req.Task] = {}) =>
    /\ Returned /\ ~handlerInvoked
    /\ code = {400}
    /\ err = <<"unknown task name %q", req.Task>>

C10_Witness ==
  /\ pc = "done" /\ allocState # {} /\ req.Task = "db" /\ Snapshot["db"] = {}
  /\ Snapshot["web"] # {} /\ code = {400} /\ ~handlerInvoked

\* C11: with remote exec disabled every decoded request ends with
\* PermissionDenied and no status code, whatever its fields are; the
\* allocation is not looked up, the credential is not resolved and the
\* handler is not invoked.
C11_RemoteExecDisabled ==
  (Decoded /\ DisableRemoteExec) =>
    /\ pc # "checkRemoteExec" => PermissionDenied
    /\ ar = {} /\ ~Logged("alloc_exec: failed to get alloc runner")
    /\ ~Logged("task exec session starting") /\ aclObj = {} /\ token = {}
    /\ capabilities = {} /\ allocState = {} /\ h = {}
    /\ ~handlerInvoked

C11_Witness ==
  /\ pc = "done" /\ Decoded /\ DisableRemoteExec
  /\ req.AllocID = "a1" /\ req.Task = "web" /\ req.Cmd # <<>> /\ req.AuthToken = "tok-both"
  /\ err = ErrPermissionDenied /\ code = {} /\ ~handlerInvoked

\* the session-start entries that record the identity the credential of the
\* request resolves to (empty name and accessor id when there is no token)
C12_AuditEntries ==
  {i \in DOMAIN log :
     /\ log[i].msg = "task exec session starting"
     /\ \A t \in resolveTokenAndACL(req.AuthToken).token :
          log[i].access_token_name = t.Name /\ log[i].access_token_id = t.AccessorID
     /\ resolveTokenAndACL(req.AuthToken).token = {} =>
          log[i].access_token_name = "" /\ log[i].access_token_id = <<>>}

\* C12 as stated: every session that ends with PermissionDenied has emitted
\* an audit entry with the attempted identity before the denial.
C12_DenialAlwaysAudited == PermissionDenied => C12_AuditEntries # {}

\* C12 (amended): every session that ends with PermissionDenied on a node
\* with remote exec enabled has emitted the session-start entry with the
\* token name and accessor id before the denial was returned and before the
\* end of the session was logged.
C12_AuthorizationDenialAudited ==
  (PermissionDenied /\ ~DisableRemoteExec) =>
    /\ C12_AuditEntries # {}
    /\ \A j \in DOMAIN log :
         log[j].msg = "task exec session ended with an error" =>
           \E i \in C12_AuditEntries : i < j

C12_Witness ==
  /\ pc = "done" /\ err = ErrPermissionDenied /\ code = {} /\ ~DisableRemoteExec
  /\ req.AuthToken = "tok-none"
  /\ \E i \in DOMAIN log : log[i].access_token_name = "tok-none"

\* C13: once the handler has been invoked the outcome is decided by what the
\* handler returned: an error gives status 500 with that error, success
\* gives no status code and no error.
C13_OutcomeFollowsHandler ==
  /\ (handlerInvoked /\ Returned) =>
       /\ Logged("alloc_exec: handler call failed") \/ Logged("alloc_exec: finished without error")
       /\ err # NoErr => code = {500}
       /\ err = NoErr => code = {}
  /\ \A i \in DOMAIN log :
       /\ log[i].msg = "alloc_exec: handler call failed" =>
            handlerInvoked /\ Returned /\ err = log[i].error /\ err # NoErr /\ code = {500}
       /\ log[i].msg = "alloc_exec: finished without error" =>
            handlerInvoked /\ Returned /\ err = NoErr /\ code = {}

C13_Witness ==
  /\ pc = "done" /\ handlerInvoked /\ err = ErrEOF /\ code = {500}
  /\ Logged("alloc_exec: handler call failed")

C13_WitnessSuccess ==
  /\ pc = "done" /\ handlerInvoked /\ err = NoErr /\ code = {}
  /\ Len(sent) = 2

\* C14: when the connection is closed while the handler is running and
\* blocked in Recv, Recv returns an error, and execImpl returns with the
\* session context cancelled.
C14_CloseUnblocksSession ==
  /\ (pc = "handler" /\ peerClosed) ~> (streamErr # NoErr \/ Returned)
  /\ (pc = "handler" /\ peerClosed) ~> (Returned /\ ctx = "cancelled")

C14_Witness ==
  /\ Returned /\ handlerInvoked /\ peerClosed /\ streamErr = ErrEOF /\ sent = <<>>
  /\ err = ErrEOF /\ ctx = "cancelled"

\* C15: a well-formed request from a caller granted alloc-exec, against a
\* started task with an isolated filesystem and an exec handle, leads to the
\* handler being invoked, its exit frame reaching the caller, execImpl
\* returning no status and no error, no ErrorWrapper on the connection, and
\* the connection closed.
C15_Request ==
  /\ pc = "checkRemoteExec" /\ Decoded
  /\ req.AllocID # "" /\ req.Task # "" /\ req.Cmd # <<>>
  /\ NamespaceCapabilityAllocExec \in TokenCaps(req.AuthToken)["default"]
  /\ TaskStates[req.Task] = {StartedTask} /\ execHandlers[req.Task]

C15_Completed ==
  /\ pc = "done" /\ handlerInvoked
  /\ Isolation # FSIsolationNone
  /\ ~peerClosed
  /\ \E i \in DOMAIN wire : wire[i].Error = {} /\ DecodeFrame(wire[i].Payload).Exited
  /\ code = {} /\ err = NoErr
  /\ \A i \in DOMAIN wire : wire[i].Error = {}
  /\ connClosed

C15_EndToEnd == C15_Request ~> C15_Completed

C15_Witness == C15_Completed /\ Len(sent) = 2 /\ recvd # <<>>

IsData(env) == env.Error = {}
DataEnvelopes == SelectSeq(wire, IsData)

\* C16: frames are delivered in the order they were sent, without
\* reordering, merging or loss: the data envelopes on the connection carry,
\* one by one and in call order, the frames passed to Send, and Recv
\* returns the caller's input frames in the order they were written.
C16_OrderPreserved ==
  /\ Len(DataEnvelopes) = Len(sent)
  /\ \A i \in DOMAIN sent : DataEnvelopes[i].Payload = EncodeFrame(sent[i])
  /\ recvd \o inbox = inputs

C16_Witness ==
  /\ Len(sent) = 2 /\ sent[1] # sent[2]
  /\ Len(recvd) = 2 /\ recvd[1] # recvd[2]
  /\ Len(DataEnvelopes) = 2

\* C17: the envelope written for each frame passed to Send has no error
\* fields and a payload that decodes to that very frame, also for the later
\* frames of a sequence: the reused buffer holds the last frame only.
C17_RoundTrip ==
  /\ \A i \in DOMAIN sent :
       /\ i \in DOMAIN wire
       /\ wire[i].Error = {}
       /\ DecodeFrame(wire[i].Payload) = sent[i]
  /\ sent # <<>> => DecodeFrame(buf) = sent[Len(sent)]

C17_Witness ==
  /\ sent = <<StdoutFrame(<<"hi">>), ExitFrame(0)>>
  /\ Len(wire) = 2 /\ DecodeFrame(wire[2].Payload) = ExitFrame(0)

\* C18: an envelope with error fields is the last envelope on the
\* agent-to-caller direction, so there is at most one per session and
\* nothing is written after it.
C18_ErrorWrapperIsLast ==
  \A i \in DOMAIN wire : wire[i].Error # {} => i = Len(wire)

C18_Witness ==
  /\ pc = "done" /\ connClosed /\ Len(wire) = 3
  /\ wire[1].Error = {} /\ wire[2].Error = {} /\ wire[3].Error # {}

\* C19: a status code of the session outcome or of an envelope is 400, 404
\* or 500, or absent (as for PermissionDenied and a failed credential
\* resolution); an exit code is carried in the payload of a data envelope,
\* and an envelope with an error code has no payload.
C19_StatusVocabulary ==
  /\ code \subseteq {400, 404, 500}
  /\ (Returned /\ err \in {ErrPermissionDenied, ErrTokenNotFound}) => code = {}
  /\ \A i \in DOMAIN wire :
       /\ \A e \in wire[i].Error : e.Code \subseteq {400, 404, 500}
       /\ wire[i].Error # {} => wire[i].Payload = <<>>
       /\ (\E k \in DOMAIN wire[i].Payload : wire[i].Payload[k][1] = "result") =>
            wire[i].Error = {}

C19_Witness ==
  /\ pc = "done" /\ Exited /\ err = ErrHandler
  /\ wire[Len(wire)].Error = {[Message |-> ErrHandler, Code |-> {500}]}
  /\ \E i \in DOMAIN wire : DecodeFrame(wire[i].Payload).Exited

C21_CancelledOnTransportFailure ==
  (pc = "handler" /\ streamErr # NoErr) => ctx = "cancelled"

\* C22: when the session run has returned after creating its context (the
\* handler returned with or without an error, or no exec handle existed),
\* the context is cancelled; while the handler has been called and has not
\* returned, this layer has not cancelled it.
C22_CancelledOnReturn ==
  /\ (Returned /\ (handlerInvoked \/ err = ErrTaskNotRunning(req.Task))) => ctx = "cancelled"
  /\ (handlerInvoked /\ ~Returned) => ctx = "active"

C22_Witness ==
  /\ pc = "done" /\ handlerInvoked /\ err = NoErr /\ code = {} /\ ctx = "cancelled"
  /\ sent # <<>>

C22_WitnessNotRunning ==
  /\ pc = "done" /\ ~handlerInvoked /\ err = ErrTaskNotRunning(req.Task) /\ ctx = "cancelled"

C22_WitnessHandlerError ==
  /\ pc = "done" /\ handlerInvoked /\ err = ErrHandler /\ ctx = "cancelled"

\* C23: when the credential has been resolved and the alloc-exec check
\* evaluated, the allocation ID and the task name of the request are
\* non-empty; when the handler is invoked the command is non-empty; a
\* request with an empty task name ends with status 400.
C23_ValidatedBeforeAuthorization ==
  /\ Logged("task exec session starting") => (req.AllocID # "" /\ req.Task # "")
  /\ handlerInvoked => Len(req.Cmd) > 0
  /\ (Returned /\ Logged("task exec session starting") /\ req.Task = "") =>
       (code = {400} /\ err = taskNotPresentErr)

StartEvents == {i \in DOMAIN log : log[i].msg = "task exec session starting"}
EndEvents ==
  {i \in DOMAIN log : log[i].msg \in {"task exec session ended",
                                      "task exec session ended with an error"}}

\* C24: a finished session has logged exactly one end event; when a start
\* event was logged the end event follows it and carries the same exec_id,
\* on the success and on the error path; the exec_id is in no envelope.
C24_EndEventCorrelated ==
  pc = "done" =>
    /\ Cardinality(EndEvents) = 1
    /\ \A b \in StartEvents : \A e \in EndEvents :
         b < e /\ log[e].exec_id = log[b].exec_id
    /\ \A i \in DOMAIN wire :
         /\ \A w \in wire[i].Error : \A k \in DOMAIN w.Message : w.Message[k] # execID
         /\ \A k \in DOMAIN wire[i].Payload : wire[i].Payload[k][1] # execID

UnknownAllocation ==
  \E i \in DOMAIN log : /\ log[i].msg = "alloc_exec: failed to get alloc runner"
                        /\ log[i].error = ErrUnknownAllocation

\* C25: the allocation is looked up before the credential is resolved: for
\* an allocation unknown to the node the session ends with status 404 and
\* the lookup's error whatever the credential, which has not been resolved
\* at that point; for a known allocation a resolved credential without
\* alloc-exec ends with PermissionDenied and an unresolvable one with the
\* resolver's error.
C25_ExistenceBeforeAuthorization ==
  /\ UnknownAllocation =>
       /\ Returned /\ code = {404} /\ err = ErrUnknownAllocation
       /\ ~Logged("task exec session starting")
       /\ ar = {} /\ aclObj = {} /\ token = {} /\ ~handlerInvoked
  /\ (ar # {} /\ aclObj # {} /\ Lacks(NamespaceCapabilityAllocExec)) => PermissionDenied
  /\ (ar # {} /\ Logged("task exec session starting") /\ req.AuthToken = "tok-bad") =>
       (Returned /\ code = {} /\ err = ErrTokenNotFound)

C25_Witness ==
  /\ pc = "done" /\ UnknownAllocation /\ req.AuthToken = "tok-none" /\ code = {404}

C25_WitnessKnown ==
  /\ pc = "done" /\ ar # {} /\ req.AuthToken = "tok-none" /\ PermissionDenied

\* every envelope on the connection has no error fields and carries exactly
\* the encoding of the frame passed to the Send call that wrote it
EnvelopesCarryTheirFrames ==
  /\ Len(wire) = Len(sent)
  /\ \A i \in DOMAIN wire : wire[i] = [Payload |-> EncodeFrame(sent[i]), Error |-> {}]

\* C26: with one goroutine calling Send and one calling Recv, under every
\* interleaving of their statements each envelope written carries exactly
\* the encoding of the frame passed to that Send, and Recv returns the
\* caller's input frames one by one in the order of the connection.
C26_SendRecvIndependent ==
  discipline = "single" =>
    /\ EnvelopesCarryTheirFrames
    /\ recvd \o inbox = inputs

C26_Witness ==
  /\ discipline = "single"
  /\ wpc["w1"] = "write" /\ rpc = "decode"
  /\ Len(sent) = 1 /\ Len(recvd) = 1 /\ inbox # <<>>

\* C27: when the Send calls of several writers are serialized, no envelope
\* carries anything but the encoding of the frame passed to its call; with
\* interleaved calls such an envelope can be written (the witnesses).
C27_SerializedSendIsSafe ==
  discipline = "serialized" => EnvelopesCarryTheirFrames

C27_Witness ==
  /\ discipline = "concurrent"
  /\ \E i \in DOMAIN wire :
       wire[i].Payload \in {EncodeFrame(m) : m \in OutputFrames \ {sent[i]}}

C27_WitnessEmpty ==
  /\ discipline = "concurrent"
  /\ \E i \in DOMAIN wire : wire[i].Payload = <<>>

C27_WitnessSerialized ==
  /\ discipline = "serialized" /\ Len(sent) = 2 /\ sent[1] # sent[2]

\* what the session read before fetching the exec handle: the task present
\* in the task-state mapping and started
SeenStarted ==
  /\ allocState # {} /\ taskState = Snapshot[req.Task]
  /\ taskState # {} /\ \A t \in taskState : t.StartedAt # 0

\* C28: the started check and the fetch of the exec handle are two reads of
\* live node state.  A session that saw the task started and then finds no
\* exec handle ends with status 404 "not running" and invokes nothing; a
\* nil handle is never called; a handler that is invoked belongs to a task
\* the session saw present and started.
C28_NoHandleNoCall ==
  /\ [](/\ (SeenStarted /\ Returned /\ h = {} /\ ctx # "none") =>
             (code = {404} /\ err = ErrTaskNotRunning(req.Task) /\ ~handlerInvoked)
        /\ (pc = "invoke" \/ handlerInvoked) => (h # {} /\ SeenStarted))
  /\ [][(pc = "getExecHandler" /\ ~execHandlers[req.Task] /\ pc' # pc) =>
          (/\ pc' = "returned" /\ code' = {404} /\ err' = ErrTaskNotRunning(req.Task)
           /\ ~handlerInvoked' /\ h' = {})]_vars

C28_Witness ==
  /\ pc = "done" /\ SeenStarted /\ ~execHandlers[req.Task] /\ h = {}
  /\ code = {404} /\ err = ErrTaskNotRunning(req.Task) /\ ~handlerInvoked
  /\ wire = <<ErrorEnvelope(ErrTaskNotRunning(req.Task), {404})>>

NoInstallables == hookReq.nix_installables \in {Unset, ListOf(<<>>)}

\* C29: Prestart marks its response Done on every return path (no
\* installables, a configuration value of the wrong type, a failed user
\* lookup, a failed installation, success); with no installables
\* configured it returns nil without installing anything and without
\* adding a mount.
C29_PrestartAlwaysDone ==
  /\ hookPc = "returned" => resp.Done
  /\ (hookPc = "returned" /\ NoInstallables) =>
       /\ hookErr = NoErr
       /\ taskDir.built = <<>> /\ ~taskDir.stateDir /\ ~taskDir.chowned
       /\ resp.Mounts = <<>>

C29_Witness ==
  /\ hookPc = "returned" /\ NoInstallables /\ hookReq.nix_host = BoolVal(TRUE)
  /\ resp.Done /\ hookErr = NoErr /\ resp.Mounts = <<>>

C29_WitnessWrongType ==
  /\ hookPc = "returned" /\ hookErr = ErrNixHostNotBool /\ resp.Done

C29_WitnessUserLookup ==
  /\ hookPc = "returned" /\ hookErr = ErrUserLookup("alice") /\ resp.Done
  /\ resp.Mounts = <<NixMount>>

C29_WitnessInstallFails ==
  /\ hookPc = "returned" /\ hookErr = ErrInstall /\ resp.Done /\ Len(taskDir.built) = 1

C29_WitnessSuccess ==
  /\ hookPc = "returned" /\ hookErr = NoErr /\ resp.Done /\ Len(taskDir.built) = 2
  /\ taskDir.chowned
====
